---- MODULE Spec2Model ----
(***************************************************************************)
(* Model of the flask-tts-api service: app.py (startup model loading, the  *)
(* /health and /generate handlers), twilio_call.py (make_call and          *)
(* check_twilio_configured) and tts_generator.py (load_models and          *)
(* generate_speech).                                                       *)
(*                                                                         *)
(* The TTS model, the WAV writer, the web framework's JSON parser, uuid4   *)
(* and the telephony provider are external: each of their outcomes         *)
(* (a value or a raised exception) is a nondeterministic choice.           *)
(***************************************************************************)
EXTENDS Integers, FiniteSets, Sequences, TLC

VARIABLES env, phase, tts, req, files, health, callResult, gen

vars == <<env, phase, tts, req, files, health, callResult, gen>>

----------------------------------------------------------------------------
(* Bounds of the model *)

\* number of /generate requests the server handles (all may be in flight at once)
NumReqs == 2
\* how far beyond the limit the longest modelled text is
MaxOver == 1
\* number of direct calls of a load/generate entry point in the loader runs
MaxCalls == 3

(* Program constants *)

\* app.py:102  len(text) > 100
MAX_TEXT_LEN == 100
\* app.py:122  samplerate=16000
SAMPLE_RATE == 16000

Reqs == 1..NumReqs
\* values of uuid4().hex[:8], the random part of a file name
Names == {"0f9e8d7c", "a1b2c3d4"}

----------------------------------------------------------------------------
(* twilio_call.py *)

\* the module-level configuration read from the environment; "" is unset
Envs ==
    [sid : {"", "ACxx"}, token : {"", "tok"}, phone : {"", "+15550100"},
     target : {"", "+15550199"},
     base : {"", "https://host/audio.wav", "https://host"}]

\* target_number as passed by a caller
TargetNumbers == {"None", "", "+15550142"}

\* str(e) of an exception raised by the provider client
ProviderErrors == {"HTTP 401: Authenticate"}

\* what happens inside make_call's try block: the import of the provider
\* library fails, the provider accepts the call, or the client raises
CallOutcomes == {"ImportError", "ok"} \cup ProviderErrors

Falsy(s) == s = "" \/ s = "None"

check_twilio_configured_noPhone(e) == e.sid # "" /\ e.token # ""

check_twilio_configured(e) == e.sid # "" /\ e.token # "" /\ e.phone # ""

\* the structured results of make_call; contacted records whether the provider
\* client was reached, raised whether an exception left make_call
CallFailure(err) ==
    [success |-> FALSE, fields |-> {"success", "error", "call_sid"},
     error |-> err, call_sid |-> "None", status |-> "absent",
     to |-> "absent", from |-> "absent", contacted |-> FALSE, raised |-> FALSE]

ProviderFailure(err) == [CallFailure(err) EXCEPT !.contacted = TRUE]

CallSuccess(e, to_number) ==
    [success |-> TRUE, fields |-> {"success", "call_sid", "status", "to", "from"},
     error |-> "absent", call_sid |-> "CA01", status |-> "queued",
     to |-> to_number, from |-> e.phone, contacted |-> TRUE, raised |-> FALSE]

\* a variant that looks for the destination number before the sender number
make_call_destFirst(e, audio_url, target_number, outcome) ==
    LET to_number == IF Falsy(target_number) THEN e.target ELSE target_number
    IN  IF e.sid = "" \/ e.token = "" THEN CallFailure("Twilio not configured")
        ELSE IF to_number = "" THEN CallFailure("Target phone number not set")
        ELSE IF e.phone = "" THEN CallFailure("Twilio phone number not set")
        ELSE IF outcome = "ImportError" THEN CallFailure("Twilio SDK not installed")
        ELSE IF outcome = "ok" THEN CallSuccess(e, to_number)
        ELSE ProviderFailure(outcome)

\* make_call(audio_url, target_number); outcome is what happens in the try block
make_call(e, audio_url, target_number, outcome) ==
    LET to_number == IF Falsy(target_number) THEN e.target ELSE target_number
    IN  IF e.sid = "" \/ e.token = "" THEN CallFailure("Twilio not configured")
        ELSE IF e.phone = "" THEN CallFailure("Twilio phone number not set")
        ELSE IF to_number = "" THEN CallFailure("Target phone number not set")
        ELSE IF outcome = "ImportError" THEN CallFailure("Twilio SDK not installed")
        ELSE IF outcome = "ok" THEN CallSuccess(e, to_number)
        ELSE ProviderFailure(outcome)

NoCall ==
    [called |-> FALSE, target_number |-> "None", outcome |-> "ok",
     result |-> CallFailure("absent")]

\* a caller invokes make_call once, with any arguments, in any configuration
CallMakeCall ==
    /\ phase = "library"
    /\ ~callResult.called
    /\ \E tn \in TargetNumbers, out \in CallOutcomes :
         callResult' = [called |-> TRUE, target_number |-> tn, outcome |-> out,
                        result |-> make_call(env, "/audio/x.wav", tn, out)]
    /\ UNCHANGED <<env, phase, tts, req, files, health, gen>>

----------------------------------------------------------------------------
(* Model loading: app.py load_models, tts_generator.py load_models *)

\* where a load raises: nowhere, or at one of the four artifacts
FailStages == {"none", "processor", "model", "vocoder", "embeddings"}

\* the module globals, with the number of calls of load_models (ncalls), of
\* calls that returned at "Models already loaded, skipping..." (skipped) and
\* of artifact loads performed (nloads)
NoModels ==
    [processor |-> "None", model |-> "None", vocoder |-> "None",
     speaker_embeddings |-> "None", models_loaded |-> FALSE,
     ncalls |-> 0, skipped |-> 0, nloads |-> 0]

\* the globals after a pass through the four loads that raises at failAt
LoadSequence(t, failAt) ==
    LET n == CASE failAt = "processor" -> 0
               [] failAt = "model" -> 1
               [] failAt = "vocoder" -> 2
               [] failAt = "embeddings" -> 3
               [] OTHER -> 4
    IN  [t EXCEPT !.processor = IF n >= 1 THEN "loaded" ELSE @,
                  !.model = IF n >= 2 THEN "loaded" ELSE @,
                  !.vocoder = IF n >= 3 THEN "loaded" ELSE @,
                  !.speaker_embeddings = IF n >= 4 THEN "loaded" ELSE @,
                  !.models_loaded = IF n >= 4 THEN TRUE ELSE @,
                  !.nloads = @ + n]

AlreadyLoaded_never(t) == FALSE

\* the guard `if models_loaded: return`
AlreadyLoaded(t) == t.models_loaded

\* app.py load_models(): the new globals, and whether the call raised
load_models(t, failAt) ==
    IF AlreadyLoaded(t)
    THEN [state |-> [t EXCEPT !.ncalls = @ + 1, !.skipped = @ + 1],
          raised |-> FALSE]
    ELSE [state |-> LoadSequence([t EXCEPT !.ncalls = @ + 1], failAt),
          raised |-> failAt # "none"]

\* tts_generator.py load_models()
gen_load_models(t, failAt) ==
    IF AlreadyLoaded(t)
    THEN [state |-> [t EXCEPT !.ncalls = @ + 1, !.skipped = @ + 1],
          raised |-> FALSE]
    ELSE [state |-> LoadSequence([t EXCEPT !.ncalls = @ + 1], failAt),
          raised |-> failAt # "none"]

\* a caller invokes app.load_models()
AppLoadModels ==
    /\ phase = "library"
    /\ tts.ncalls < MaxCalls
    /\ \E failAt \in FailStages : tts' = load_models(tts, failAt).state
    /\ UNCHANGED <<env, phase, req, files, health, callResult, gen>>

\* a caller invokes tts_generator.load_models()
GenLoadModels ==
    /\ phase = "library"
    /\ gen.m.ncalls < MaxCalls
    /\ \E failAt \in FailStages :
         gen' = [gen EXCEPT !.m = gen_load_models(gen.m, failAt).state]
    /\ UNCHANGED <<env, phase, tts, req, files, health, callResult>>

\* tts_generator.py module state: the globals (m), the number of calls of
\* generate_speech, the last return value and the state of output_file
NoGen == [m |-> NoModels, gcalls |-> 0, ret |-> "none", output |-> "absent"]

\* generate_speech(text, output_file): loads the models when they are not
\* loaded, synthesizes and writes; every exception is caught and gives False
generate_speech(g, failAt, synthOk, writeOk) ==
    LET l == IF ~g.m.models_loaded
             THEN gen_load_models(g.m, failAt)
             ELSE [state |-> g.m, raised |-> FALSE]
        g1 == [g EXCEPT !.m = l.state, !.gcalls = @ + 1]
    IN  IF l.raised \/ ~synthOk THEN [g1 EXCEPT !.ret = "False"]
        ELSE IF ~writeOk THEN [g1 EXCEPT !.ret = "False", !.output = "partial"]
        ELSE [g1 EXCEPT !.ret = "True", !.output = "written"]

\* a caller invokes tts_generator.generate_speech
GenGenerateSpeech ==
    /\ phase = "library"
    /\ gen.gcalls < MaxCalls
    /\ gen.m.ncalls < MaxCalls
    /\ \E failAt \in FailStages, synthOk \in BOOLEAN, writeOk \in BOOLEAN :
         gen' = generate_speech(gen, failAt, synthOk, writeOk)
    /\ UNCHANGED <<env, phase, tts, req, files, health, callResult>>

----------------------------------------------------------------------------
(* app.py: startup *)

StartupPhase_caught(raised) == "serving"

\* load_models() is called at module level, outside any try: when it raises
\* the import of app.py fails and the server never starts
StartupPhase(raised) == IF raised THEN "crashed" ELSE "serving"

Startup ==
    /\ phase = "startup"
    /\ \E failAt \in FailStages :
         LET l == load_models(tts, failAt)
         IN  /\ tts' = l.state
             /\ phase' = StartupPhase(l.raised)
    /\ UNCHANGED <<env, req, files, health, callResult, gen>>

----------------------------------------------------------------------------
(* app.py: GET /health *)

NoHealth == [served |-> FALSE, status |-> 0, fields |-> {}, body_status |-> "absent"]

\* health(): jsonify({"status": "healthy"}), 200
health_response ==
    [served |-> TRUE, status |-> 200, fields |-> {"status"},
     body_status |-> "healthy"]

Health ==
    /\ phase = "serving"
    /\ health' = health_response
    /\ UNCHANGED <<env, phase, tts, req, files, callResult, gen>>

----------------------------------------------------------------------------
(* app.py: POST /generate *)

\* The request bodies.  kind is what the client sent:
\*   "absent"     no body, or a body that is not declared as JSON
\*   "malformed"  a JSON content type with a body that does not parse
\*   "falsy"      JSON null, {}, [], 0, "" or false
\*   "scalar"     a JSON number or true
\*   "notext"     a non-empty JSON object without the key text
\*   "text"       a JSON object with a string text of length len, with
\*                make_call absent, true or false, and target_number None or set
TextLens == {0, MAX_TEXT_LEN} \cup (MAX_TEXT_LEN + 1 .. MAX_TEXT_LEN + MaxOver)

NoBody == [kind |-> "absent", len |-> 0, make_call |-> "absent", target |-> "None"]

Bodies ==
    {[NoBody EXCEPT !.kind = k] :
        k \in {"absent", "scalar", "falsy", "malformed", "notext"}}
    \cup [kind : {"text"}, len : TextLens,
          make_call : {"absent", "true", "false"},
          target : {"None", "+15550142"}]

\* an ordinary request: a text at the limit, the call flag left to its default
Ordinary ==
    {[kind |-> "text", len |-> MAX_TEXT_LEN, make_call |-> "absent",
      target |-> "None"]}

\* what request r carries: the first request any body, the requests that run
\* beside it an ordinary one
BodiesOf(r) == IF r = 1 THEN Bodies ELSE Ordinary

\* the JSON responses of /generate: the HTTP status, the keys of the body
\* (fields) and their values; message is the text with the number it embeds
Msg(text, n) == [text |-> text, len |-> n]

NoResp ==
    [status |-> 0, fields |-> {}, success |-> FALSE, message |-> Msg("absent", 0),
     file |-> "absent", call_sid |-> "absent", call_status |-> "absent",
     call_error |-> "absent"]

ErrorResp(status, msg) ==
    [NoResp EXCEPT !.status = status, !.fields = {"success", "message"},
                   !.message = msg]

MissingText == ErrorResp(400, Msg("Missing 'text' field in request body", 0))

TextTooLong(n) == ErrorResp(400, Msg("Text too long (n chars). Max 100 characters.", n))

\* the handler's `except Exception`: 500 with "Error: " + str(e)
ServerError == ErrorResp(500, Msg("Error: str(e)", 0))

\* request.get_json(): "raise" (an HTTPException, which is an Exception),
\* "None" or "data".  For an absent body the framework returns None or raises,
\* depending on its version (strict says which); a malformed one raises.
get_json(body, strict) ==
    CASE body.kind = "malformed" -> "raise"
      [] body.kind = "absent" -> IF strict THEN "raise" ELSE "None"
      [] OTHER -> "data"

TooLong_offByOne(n) == n > MAX_TEXT_LEN + 1

TooLong_inclusive(n) == n >= MAX_TEXT_LEN

\* len(text) > 100
TooLong(n) == n > MAX_TEXT_LEN

\* the handler up to the length check: the response it returns there, or
\* NoResp when it goes on to synthesis
Validate(body, strict) ==
    LET data == get_json(body, strict)
    IN  CASE data = "raise" -> ServerError
          [] data = "None" \/ body.kind = "falsy" -> MissingText
          \* 'text' in data raises TypeError for a number or a boolean
          [] body.kind = "scalar" -> ServerError
          [] body.kind = "notext" -> MissingText
          [] TooLong(body.len) -> TextTooLong(body.len)
          [] OTHER -> NoResp

\* data.get('make_call', check_twilio_configured())
make_call_flag(body, e) ==
    IF body.make_call = "absent" THEN check_twilio_configured(e)
    ELSE body.make_call = "true"

\* URLs: a base and the file the path names ("none": no file)
Url(base, name) == [base |-> base, name |-> name]

\* public_base_url.replace('/audio.wav', f'/{filename}')
ReplaceAudio(base, name) ==
    IF base = "https://host/audio.wav" THEN Url("https://host", name)
    ELSE Url(base, "none")

\* the URL handed to make_call
full_audio_url(e, name) ==
    IF e.base # "" THEN ReplaceAudio(e.base, name) ELSE Url("", name)

\* a file of AUDIO_DIR: absent, partial (opened, not yet closed) or complete;
\* owner is the request whose samples it holds
NoFile == [state |-> "absent", owner |-> 0, rate |-> 0]

\* a request: what the client sent (kind, text_len), the handler's locals
\* (make_call_flag, target_number, filename), whether its sf.write returned
\* (wrote), whether it invoked make_call (called), with which URL (played) and
\* whether the result said success (call_success), and its response
NoReq ==
    [pc |-> "idle", kind |-> "absent", text_len |-> 0, make_call_flag |-> FALSE,
     target_number |-> "None", filename |-> "none", wrote |-> FALSE,
     called |-> FALSE, played |-> Url("absent", "none"),
     call_success |-> FALSE, resp |-> NoResp]

\* lines 94-99: text, make_call_flag and target_number are read before the
\* length check
Locals(q, body, e) ==
    [q EXCEPT !.kind = body.kind, !.text_len = body.len,
              !.make_call_flag = make_call_flag(body, e),
              !.target_number = body.target]

Respond(q, resp) == [q EXCEPT !.pc = "done", !.resp = resp]

\* lines 82-111: parse, validate, pick the file name
Receive(r) ==
    /\ phase = "serving"
    /\ req[r].pc = "idle"
    /\ \E strict \in BOOLEAN, body \in BodiesOf(r), name \in Names :
         LET v == Validate(body, strict)
         IN  req' = [req EXCEPT ![r] =
                        IF v # NoResp /\ v # TextTooLong(body.len)
                        THEN Respond([@ EXCEPT !.kind = body.kind], v)
                        ELSE IF v # NoResp
                        THEN Respond(Locals(@, body, env), v)
                        ELSE [Locals(@, body, env) EXCEPT !.pc = "synth",
                                                          !.filename = name]]
    /\ UNCHANGED <<env, phase, tts, files, health, callResult, gen>>

\* lines 115-121 raise, or sf.write cannot open the file
SynthFail(r) ==
    /\ req[r].pc = "synth"
    /\ req' = [req EXCEPT ![r] = Respond(@, ServerError)]
    /\ UNCHANGED <<env, phase, tts, files, health, callResult, gen>>

\* lines 115-122: the speech is synthesized and sf.write opens (truncates)
\* the file
WriteOpen(r) ==
    /\ req[r].pc = "synth"
    /\ req' = [req EXCEPT ![r].pc = "writing"]
    /\ files' = [files EXCEPT ![req[r].filename] =
                    [state |-> "partial", owner |-> r, rate |-> SAMPLE_RATE]]
    /\ UNCHANGED <<env, phase, tts, health, callResult, gen>>

\* sf.write raises while writing: the file stays as it is
WriteFail(r) ==
    /\ req[r].pc = "writing"
    /\ req' = [req EXCEPT ![r] = Respond(@, ServerError)]
    /\ UNCHANGED <<env, phase, tts, files, health, callResult, gen>>

\* sf.write returns: the samples of this request are in the file
WriteClose(r) ==
    /\ req[r].pc = "writing"
    /\ req' = [req EXCEPT ![r].pc = "written", ![r].wrote = TRUE]
    /\ files' = [files EXCEPT ![req[r].filename] =
                    [state |-> "complete", owner |-> r, rate |-> SAMPLE_RATE]]
    /\ UNCHANGED <<env, phase, tts, health, callResult, gen>>

SuccessResp(name) ==
    [NoResp EXCEPT !.status = 200, !.fields = {"success", "file"},
                   !.success = TRUE, !.file = name]

\* lines 147-153: the call result merged into the response
MergeCall(resp, res) ==
    IF res.success
    THEN [resp EXCEPT !.fields = @ \cup {"call_sid", "call_status"},
                      !.call_sid = res.call_sid, !.call_status = res.status]
    ELSE [resp EXCEPT !.fields = @ \cup {"call_error"},
                      !.call_error = res.error]

FinishReady_early(q) == q.pc \in {"writing", "written"}

\* lines 126-158 run once sf.write has returned
FinishReady(q) == q.pc = "written"

\* lines 126-158: build the response, place the call when asked to
Finish(r) ==
    /\ FinishReady(req[r])
    /\ LET q == req[r]
           ok == SuccessResp(q.filename)
       IN  IF q.make_call_flag /\ check_twilio_configured(env)
           THEN \E out \in CallOutcomes :
                  LET url == full_audio_url(env, q.filename)
                      res == make_call(env, url, q.target_number, out)
                  IN  req' = [req EXCEPT ![r] =
                                 Respond([q EXCEPT !.called = TRUE, !.played = url,
                                                   !.call_success = res.success],
                                         IF res.raised THEN ServerError
                                         ELSE MergeCall(ok, res))]
           ELSE IF q.make_call_flag
           THEN req' = [req EXCEPT ![r] =
                           Respond(q, [ok EXCEPT !.fields = @ \cup {"call_error"},
                                                 !.call_error = "Twilio not configured"])]
           ELSE req' = [req EXCEPT ![r] = Respond(q, ok)]
    /\ UNCHANGED <<env, phase, tts, files, health, callResult, gen>>

----------------------------------------------------------------------------
(* Specifications *)

\* the environments the service is run in: every setting of the three
\* credentials; the default destination and the base URL vary where the
\* service reads them, which is only on the way to a call
ServiceEnvs ==
    {e \in Envs : (e.sid = "" \/ e.token = "" \/ e.phone = "")
                      => (e.target = "" /\ e.base = "")}

Init ==
    /\ env \in ServiceEnvs
    /\ phase = "startup"
    /\ tts = NoModels
    /\ req = [r \in Reqs |-> NoReq]
    /\ files = [n \in Names |-> NoFile]
    /\ health = NoHealth
    /\ callResult = NoCall
    /\ gen = NoGen

Next ==
    \/ Startup
    \/ Health
    \/ \E r \in Reqs :
         \/ Receive(r)
         \/ SynthFail(r)
         \/ WriteOpen(r)
         \/ WriteFail(r)
         \/ WriteClose(r)
         \/ Finish(r)

\* the HTTP service: startup, then /health and concurrent /generate requests
Spec == Init /\ [][Next]_vars

InitLibrary ==
    /\ env \in Envs
    /\ phase = "library"
    /\ tts = NoModels
    /\ req = [r \in Reqs |-> NoReq]
    /\ files = [n \in Names |-> NoFile]
    /\ health = NoHealth
    /\ callResult = NoCall
    /\ gen = NoGen

\* make_call called directly, in every configuration
SpecCall == InitLibrary /\ [][CallMakeCall]_vars

InitLoader == InitLibrary /\ env = [sid |-> "", token |-> "", phone |-> "",
                                    target |-> "", base |-> ""]

NextLoader == AppLoadModels \/ GenLoadModels \/ GenGenerateSpeech

\* the model-loading entry points called directly and repeatedly
SpecLoader == InitLoader /\ [][NextLoader]_vars

----------------------------------------------------------------------------
(* Properties *)

Done(r) == req[r].pc = "done"

InFlight(r) == req[r].pc \in {"synth", "writing", "written"}

Unconfigured == env.sid = "" \/ env.token = "" \/ env.phone = ""

\* C1 as stated: every /generate request whose text has length <= 100 is
\* answered 200 with success true and a file reference, the named file being
\* in the audio directory at 16000 Hz when the response is returned.
C1_Always200 ==
    \A r \in Reqs :
        (Done(r) /\ req[r].kind = "text" /\ req[r].text_len <= 100)
        => /\ req[r].resp.status = 200
           /\ req[r].resp.success
           /\ "file" \in req[r].resp.fields
           /\ req[r].resp.file \in Names
           /\ files[req[r].resp.file].state # "absent"
           /\ files[req[r].resp.file].rate = 16000

\* C1 amended: a /generate request whose text has length <= 100 is never
\* rejected as invalid.  When its synthesis and file write return, the response
\* is 200 with success true and a file reference naming the file the request
\* wrote, which is in the audio directory at 16000 Hz; when they raise, the
\* response is 500 with success false and a message, and no file reference.
C1_OkUnlessSynthesisRaises ==
    \A r \in Reqs :
        (Done(r) /\ req[r].kind = "text" /\ req[r].text_len <= 100)
        => IF req[r].wrote
           THEN /\ req[r].resp.status = 200
                /\ req[r].resp.success
                /\ "file" \in req[r].resp.fields
                /\ req[r].resp.file = req[r].filename
                /\ req[r].resp.file \in Names
                /\ files[req[r].resp.file].state # "absent"
                /\ files[req[r].resp.file].rate = 16000
           ELSE /\ req[r].resp.status = 500
                /\ ~req[r].resp.success
                /\ req[r].resp.fields = {"success", "message"}

C1_Witness ==
    \E r1, r2 \in Reqs :
        /\ Done(r1) /\ req[r1].kind = "text" /\ req[r1].text_len = 0
        /\ req[r1].resp.status = 200
        /\ Done(r2) /\ req[r2].kind = "text" /\ req[r2].text_len = 100
        /\ req[r2].resp.status = 200

\* C2: a /generate request whose text is longer than 100 is answered 400 with
\* success false and a message carrying the length of the text; it is rejected
\* before synthesis: it never reaches synthesis, writes no file and does not
\* invoke make_call.
C2_TooLongRejected ==
    \A r \in Reqs :
        (req[r].kind = "text" /\ req[r].text_len > 100)
        => /\ ~InFlight(r)
           /\ ~req[r].wrote
           /\ ~req[r].called
           /\ \A n \in Names : files[n].owner # r
           /\ Done(r) => /\ req[r].resp.status = 400
                         /\ ~req[r].resp.success
                         /\ req[r].resp.fields = {"success", "message"}
                         /\ req[r].resp.message.len = req[r].text_len

C2_Witness ==
    \E r \in Reqs :
        /\ Done(r) /\ req[r].kind = "text" /\ req[r].text_len = 101
        /\ req[r].make_call_flag
        /\ req[r].resp.status = 400

\* C3: a /generate request whose body is missing or not parseable as JSON, or
\* whose JSON body has no text field, is answered 400 with success false and
\* the message "Missing 'text' field in request body", and attempts neither
\* synthesis nor a call.
C3_MissingTextIs400 ==
    \A r \in Reqs :
        (Done(r) /\ req[r].kind \in {"absent", "malformed", "falsy", "scalar", "notext"})
        => /\ req[r].resp.status = 400
           /\ ~req[r].resp.success
           /\ req[r].resp.message.text = "Missing 'text' field in request body"
           /\ ~req[r].wrote
           /\ ~req[r].called

\* C4: when synthesis succeeded and the call flag is set, the response is 200
\* with success true whatever becomes of the call; when the Call Client is not
\* configured make_call is not invoked and call_error is "Twilio not
\* configured"; when the call does not succeed the response has a call_error
\* and no call_sid; call_sid is present only when make_call returned success.
C4_CallFailureKeeps200 ==
    \A r \in Reqs :
        (Done(r) /\ req[r].wrote /\ req[r].make_call_flag)
        => /\ req[r].resp.status = 200
           /\ req[r].resp.success
           /\ Unconfigured => /\ ~req[r].called
                              /\ req[r].resp.call_error = "Twilio not configured"
           /\ ~req[r].call_success
                => /\ "call_error" \in req[r].resp.fields
                   /\ "call_sid" \notin req[r].resp.fields
           /\ "call_sid" \in req[r].resp.fields
                => (req[r].called /\ req[r].call_success)

C4_Witness ==
    \E r \in Reqs :
        /\ Done(r) /\ req[r].wrote /\ req[r].make_call_flag
        /\ req[r].called /\ ~req[r].call_success
        /\ req[r].resp.status = 200

\* C5: make_call never raises and returns a structured result; a failure has
\* success false and call_sid None; the causes are looked for in the order
\* credentials, sender number, destination number (target_number, else the
\* environment's default), provider library, provider failure, each with its
\* own error; the provider is contacted only when credentials, sender number
\* and destination number are all present.
C5_MakeCallStructured ==
    callResult.called
    => LET res == callResult.result
           to_number == IF callResult.target_number \in {"None", ""}
                        THEN env.target ELSE callResult.target_number
           creds == env.sid # "" /\ env.token # ""
           complete == creds /\ env.phone # "" /\ to_number # ""
       IN  /\ ~res.raised
           /\ ~res.success => (res.call_sid = "None" /\ "error" \in res.fields)
           /\ ~creds => (~res.success /\ res.error = "Twilio not configured")
           /\ (creds /\ env.phone = "")
                => (~res.success /\ res.error = "Twilio phone number not set")
           /\ (creds /\ env.phone # "" /\ to_number = "")
                => (~res.success /\ res.error = "Target phone number not set")
           /\ (complete /\ callResult.outcome = "ImportError")
                => (~res.success /\ res.error = "Twilio SDK not installed")
           /\ (complete /\ callResult.outcome \in ProviderErrors)
                => (~res.success /\ res.error = callResult.outcome)
           /\ (complete /\ callResult.outcome = "ok")
                => (res.success /\ res.call_sid # "None" /\ res.to = to_number)
           /\ res.contacted => (complete /\ callResult.outcome # "ImportError")

C5_Witness ==
    /\ callResult.called
    /\ env.sid # "" /\ env.token # "" /\ env.phone = "" /\ env.target = ""
    /\ callResult.target_number = "None"
    /\ callResult.result.error = "Twilio phone number not set"

\* C6: GET /health returns 200 with a body holding the fixed status, the
\* models-loaded flag and the call-provider-configured flag.
C6_HealthReportsFlags ==
    health.served
    => /\ health.status = 200
       /\ {"status", "models_loaded", "twilio_configured"} \subseteq health.fields

\* C7: once a call of load_models has succeeded, a later call loads nothing
\* and leaves the model state as it is (in app.py and in tts_generator.py).
C7_LoadModelsIdempotent ==
    [][/\ (tts.models_loaded /\ tts'.ncalls # tts.ncalls)
            => tts' = [tts EXCEPT !.ncalls = @ + 1, !.skipped = @ + 1]
       /\ (gen.m.models_loaded /\ gen'.m.ncalls # gen.m.ncalls)
            => gen'.m = [gen.m EXCEPT !.ncalls = @ + 1, !.skipped = @ + 1]]_vars

C7_Witness ==
    /\ tts.models_loaded /\ tts.skipped >= 1 /\ tts.nloads > 4
    /\ gen.m.models_loaded /\ gen.m.skipped >= 1

\* C8: a request invokes make_call only after its own sf.write has returned;
\* a request whose synthesis or write raised never invokes make_call.
C8_CallAfterWrite ==
    \A r \in Reqs :
        /\ req[r].called => req[r].wrote
        /\ (Done(r) /\ req[r].resp.status = 500) => ~req[r].called
        /\ req[r].wrote => req[r].pc \in {"written", "done"}

C8_Witness ==
    \E r1, r2 \in Reqs :
        /\ r1 # r2
        /\ req[r1].called /\ req[r1].wrote
        /\ req[r2].pc = "writing"

\* C9: whenever a /generate request is being handled the models are loaded:
\* models_loaded is true and processor, model, vocoder and speaker embedding
\* are non-null; after a failed startup load nothing is served.
C9_NeverServeWithoutModels ==
    /\ \A r \in Reqs :
          req[r].pc # "idle"
          => /\ tts.models_loaded
             /\ tts.processor # "None" /\ tts.model # "None"
             /\ tts.vocoder # "None" /\ tts.speaker_embeddings # "None"
    /\ phase = "crashed" => (~tts.models_loaded /\ ~health.served)

C9_Witness ==
    \E r \in Reqs : req[r].pc = "synth" /\ tts.models_loaded /\ tts.ncalls = 1

\* C10: two requests handled at the same time never have the same file name,
\* and the file a response names holds the samples of that response's own
\* request.
C10_UniqueFilenames ==
    /\ \A r1, r2 \in Reqs :
          (r1 # r2 /\ InFlight(r1) /\ InFlight(r2))
          => req[r1].filename # req[r2].filename
    /\ \A r \in Reqs :
          (Done(r) /\ req[r].resp.status = 200)
          => files[req[r].resp.file].owner = r

====
